---- MODULE Spec2Model ----
(***************************************************************************)
(* Model of the AI Command Center desktop back end (src-tauri/src/main.rs): *)
(*   - the health probes and get_all_health (tokio::join! of five probes),  *)
(*   - read_log_tail (the 64 KiB tail reader),                              *)
(*   - validate_config,                                                     *)
(*   - read_config, write_config, read_policy, write_policy.                *)
(* Five specifications share the module: Spec (get_all_health), SpecProbe   *)
(* (one probe on its own), SpecTail, SpecValidate and SpecStore.  Each      *)
(* leaves the other parts' variables untouched.                             *)
(***************************************************************************)
EXTENDS Integers, Sequences, FiniteSets, TLC

VARIABLES
    \* ---- health aggregation ----
    pc,        \* get_all_health: "idle" | "polling" | "pending" | "returned"
    idx,       \* position of the join's poll pass in JoinOrder (1..6)
    st,        \* per probe future: "init" | "inflight" | "blocked" | "done"
    started,   \* per probe: the Instant taken at its first poll
    outcome,   \* per probe: what its request or command has produced, or None
    slot,      \* per probe: the future's output (Option<HealthStatus>)
    resp,      \* the AllHealthResponse returned by the last call, or None
    now,       \* wall clock, in seconds since the current call began
    calls,     \* number of get_all_health calls made
    \* ---- one probe on its own ----
    probeReq,  \* the probe invoked and the outcome its call meets
    probeRes,  \* the HealthStatus it returned, or None
    \* ---- log tail ----
    logs,      \* file name -> None (no such file) or Some(the lines of the file)
    tailReq,   \* the last read_log_tail request and the faults it met
    tailRes,   \* the last read_log_tail result
    \* ---- validation ----
    cfg,       \* the Config handed to validate_config
    vres,      \* the ValidationResult, or None
    \* ---- config and policy files ----
    disk,      \* config.yaml and routing/policy.yaml: None or Some(content)
    held,      \* what the caller last loaded from each file, or None
    sres       \* the last load or save: its inputs and its Result, or None

healthVars == <<pc, idx, st, started, outcome, slot, resp, now, calls>>
probeVars == <<probeReq, probeRes>>
tailVars == <<logs, tailReq, tailRes>>
validVars == <<cfg, vres>>
storeVars == <<disk, held, sres>>
vars == <<pc, idx, st, started, outcome, slot, resp, now, calls,
          probeReq, probeRes, logs, tailReq, tailRes, cfg, vres,
          disk, held, sres>>

\* Option<T>: None is the empty tuple, Some(x) the one-element tuple.
None == <<>>
Some(x) == <<x>>

(***************************************************************************)
(* Bounds of the model.                                                     *)
(***************************************************************************)
MaxTime == 6          \* the clock stops advancing here
MaxCalls == 1         \* number of get_all_health calls in one behaviour

(***************************************************************************)
(* Program constants.                                                       *)
(***************************************************************************)
TimeoutSecs == 5      \* Duration::from_secs(5) of the reqwest client

(***************************************************************************)
(* Strings are sequences of one-character strings where the code looks      *)
(* inside them (trim, starts_with).                                         *)
(***************************************************************************)
BadByte == "\\xFF"            \* a byte that is not valid UTF-8
ReplacementChar == "U+FFFD"

\* String::from_utf8_lossy: invalid bytes become U+FFFD.
from_utf8_lossy(bytes) ==
    [i \in 1..Len(bytes) |-> IF bytes[i] = BadByte THEN ReplacementChar ELSE bytes[i]]

IsWhitespace(c) == c \in {" ", "\n", "\t", "\r"}

RECURSIVE trim_start(_)
trim_start(s) ==
    IF s # <<>> /\ IsWhitespace(Head(s)) THEN trim_start(Tail(s)) ELSE s

RECURSIVE trim_end(_)
trim_end(s) ==
    IF s # <<>> /\ IsWhitespace(s[Len(s)]) THEN trim_end(SubSeq(s, 1, Len(s) - 1)) ELSE s

\* Mutant: only leading whitespace is removed.
trim_StartOnly(s) == trim_start(s)

\* str::trim
trim(s) == trim_end(trim_start(s))

PONG == <<"P", "O", "N", "G">>

(***************************************************************************)
(* Probes.                                                                  *)
(***************************************************************************)
\* The order of the futures in tokio::join!.
JoinOrder == <<"router", "litellm", "ollama", "redis", "langfuse">>
Probes == {JoinOrder[i] : i \in 1..Len(JoinOrder)}
HttpProbes == Probes \ {"redis"}

\* The service name each check_*_health passes on.
ServiceName(p) ==
    CASE p = "router" -> "Smart Router"
      [] p = "litellm" -> "LiteLLM"
      [] p = "ollama" -> "Ollama"
      [] p = "redis" -> "Redis"
      [] p = "langfuse" -> "Langfuse"

HealthStatus(service, healthy, message, latency_ms) ==
    [service |-> service, healthy |-> healthy, message |-> message,
     latency_ms |-> latency_ms]

\* Mutant: the upper end of the success range is left out.
is_success_ExclusiveEnd(code) == code >= 200 /\ code < 299

\* StatusCode::is_success: 200..=299.
is_success(code) == code >= 200 /\ code <= 299

\* Outcomes of one HTTP probe, as check_http_health sees them.
StatusCodes == {200, 204, 299, 199, 300, 404, 503}
\* The codes the backends of the state machine answer with.
HttpCodes == {200, 503}
SendErrors == {"connection refused", "operation timed out"}
BuildErr == [kind |-> "build_err", code |-> 0, err |-> "builder error"]
Response(code) == [kind |-> "resp", code |-> code, err |-> ""]
SendErr(e) == [kind |-> "send_err", code |-> 0, err |-> e]

\* Mutant: any response counts as healthy, whatever its status.
check_http_health_AnyResponse(service, sent, elapsed) ==
    CASE sent.kind = "build_err" ->
           HealthStatus(service, FALSE,
                        <<"Failed to create HTTP client: ", sent.err>>, None)
      [] sent.kind = "resp" ->
           HealthStatus(service, TRUE, <<"OK">>, Some(elapsed))
      [] sent.kind = "send_err" ->
           HealthStatus(service, FALSE, <<"Connection failed: ", sent.err>>, None)

\* check_http_health, given what happened and the elapsed time at that point.
check_http_health(service, sent, elapsed) ==
    CASE sent.kind = "build_err" ->
           HealthStatus(service, FALSE,
                        <<"Failed to create HTTP client: ", sent.err>>, None)
      [] sent.kind = "resp" ->
           IF is_success(sent.code)
           THEN HealthStatus(service, TRUE, <<"OK">>, Some(elapsed))
           ELSE HealthStatus(service, FALSE, <<"Status: ", sent.code>>, Some(elapsed))
      [] sent.kind = "send_err" ->
           HealthStatus(service, FALSE, <<"Connection failed: ", sent.err>>, None)

\* Outcomes of Command::new("redis-cli").args(["ping"]).output().
SpawnErr == [ok |-> FALSE, stdout |-> <<>>, err |-> "No such file or directory"]
Exited(stdout) == [ok |-> TRUE, stdout |-> stdout, err |-> ""]
Stdouts ==
    { PONG,
      PONG \o <<"\n">>,
      <<" ">> \o PONG \o <<"\r", "\n">>,
      <<>>,
      <<"\n">>,
      <<"P", "O", "N">>,
      PONG \o <<"G">>,
      <<"P", "O", " ", "N", "G">>,
      PONG \o <<BadByte, "\n">>,
      <<"N", "O", "A", "U", "T", "H">> }

\* What redis-cli prints in the state machine.
RedisOutputs == {PONG \o <<"\n">>, <<"N", "O", "A", "U", "T", "H">>}

\* check_redis_health, given the command's output.
check_redis_health(output) ==
    IF output.ok
    THEN LET stdout == from_utf8_lossy(output.stdout) IN
         IF trim(stdout) = PONG
         THEN HealthStatus("Redis", TRUE, <<"PONG">>, None)
         ELSE HealthStatus("Redis", FALSE, <<"Unexpected response: ", trim(stdout)>>, None)
    ELSE HealthStatus("Redis", FALSE, <<"Error: ", output.err>>, None)

\* The struct get_all_health builds from the outputs the join hands over
\* (each an Option taken from its future).
AllHealthResponse(out) ==
    [router |-> out["router"], litellm |-> out["litellm"],
     ollama |-> out["ollama"], redis |-> out["redis"],
     langfuse |-> out["langfuse"]]

\* Mutant: the join is ready as soon as one future is (a select).
JoinReady_Any(s) == \E p \in Probes : s[p] = "done"

\* tokio::join! is ready when every future has produced its output.
JoinReady(s) == \A p \in Probes : s[p] = "done"

(***************************************************************************)
(* get_all_health as a state machine.  tokio::join! polls the five futures  *)
(* in order on the calling task; a future that is not ready leaves the task *)
(* pending until one of its requests has something to deliver.  Computation *)
(* takes no time: the clock advances only while the task waits or while its *)
(* thread sits inside Command::output().                                    *)
(***************************************************************************)
HealthInit ==
    /\ pc = "idle"
    /\ idx = 1
    /\ st = [p \in Probes |-> "init"]
    /\ started = [p \in Probes |-> 0]
    /\ outcome = [p \in Probes |-> None]
    /\ slot = [p \in Probes |-> None]
    /\ resp = None
    /\ now = 0
    /\ calls = 0

\* The command is invoked: the join future is created and polled.
GetAllHealth ==
    /\ pc \in {"idle", "returned"}
    /\ calls < MaxCalls
    /\ pc' = "polling"
    /\ idx' = 1
    /\ st' = [p \in Probes |-> "init"]
    /\ started' = [p \in Probes |-> 0]
    /\ outcome' = [p \in Probes |-> None]
    /\ slot' = [p \in Probes |-> None]
    /\ resp' = None
    /\ now' = 0
    /\ calls' = calls + 1
    /\ UNCHANGED <<probeVars, tailVars, validVars, storeVars>>

\* The future the current poll pass has reached.
Current == IF idx <= Len(JoinOrder) THEN JoinOrder[idx] ELSE "none"

\* The join polls an HTTP probe's future.
PollHttp(p) ==
    /\ pc = "polling"
    /\ Current = p
    /\ p \in HttpProbes
    /\ \/ /\ st[p] = "init"
          \* Client::builder().build() fails: the probe returns at once.
          /\ st' = [st EXCEPT ![p] = "done"]
          /\ started' = [started EXCEPT ![p] = now]
          /\ slot' = [slot EXCEPT ![p] = Some(check_http_health(ServiceName(p), BuildErr, 0))]
          /\ outcome' = [outcome EXCEPT ![p] = Some(BuildErr)]
       \/ /\ st[p] = "init"
          \* client.get(url).send() is issued and awaited.
          /\ st' = [st EXCEPT ![p] = "inflight"]
          /\ started' = [started EXCEPT ![p] = now]
          /\ UNCHANGED <<slot, outcome>>
       \/ /\ st[p] = "inflight"
          /\ outcome[p] = None
          \* nothing to deliver yet: Poll::Pending
          /\ UNCHANGED <<st, started, slot, outcome>>
       \/ /\ st[p] = "inflight"
          /\ outcome[p] # None
          /\ st' = [st EXCEPT ![p] = "done"]
          /\ slot' = [slot EXCEPT ![p] =
                 Some(check_http_health(ServiceName(p), outcome[p][1], now - started[p]))]
          /\ UNCHANGED <<started, outcome>>
       \/ /\ st[p] = "done"
          \* MaybeDone::Done: nothing to poll
          /\ UNCHANGED <<st, started, slot, outcome>>
    /\ idx' = idx + 1
    /\ UNCHANGED <<pc, resp, now, calls, probeVars, tailVars, validVars, storeVars>>

\* The join polls check_redis_health: Command::output() cannot spawn redis-cli.
PollRedisSpawnFails ==
    /\ pc = "polling"
    /\ Current = "redis"
    /\ st["redis"] = "init"
    /\ st' = [st EXCEPT !["redis"] = "done"]
    /\ slot' = [slot EXCEPT !["redis"] = Some(check_redis_health(SpawnErr))]
    /\ outcome' = [outcome EXCEPT !["redis"] = Some(SpawnErr)]
    /\ idx' = idx + 1
    /\ UNCHANGED <<pc, started, resp, now, calls, probeVars, tailVars, validVars, storeVars>>

\* The join polls check_redis_health: redis-cli is spawned and the thread
\* waits inside Command::output() for it to exit.
PollRedisSpawn ==
    /\ pc = "polling"
    /\ Current = "redis"
    /\ st["redis"] = "init"
    /\ st' = [st EXCEPT !["redis"] = "blocked"]
    /\ started' = [started EXCEPT !["redis"] = now]
    /\ UNCHANGED <<pc, idx, outcome, slot, resp, now, calls, probeVars, tailVars, validVars, storeVars>>

\* redis-cli exits; output() returns and the poll of the future completes.
RedisExit ==
    /\ st["redis"] = "blocked"
    /\ \E out \in RedisOutputs :
          /\ slot' = [slot EXCEPT !["redis"] = Some(check_redis_health(Exited(out)))]
          /\ outcome' = [outcome EXCEPT !["redis"] = Some(Exited(out))]
    /\ st' = [st EXCEPT !["redis"] = "done"]
    /\ idx' = idx + 1
    /\ UNCHANGED <<pc, started, resp, now, calls, probeVars, tailVars, validVars, storeVars>>

\* A later pass finds the redis future already done.
PollRedisDone ==
    /\ pc = "polling"
    /\ Current = "redis"
    /\ st["redis"] = "done"
    /\ idx' = idx + 1
    /\ UNCHANGED <<pc, st, started, outcome, slot, resp, now, calls, probeVars, tailVars, validVars, storeVars>>

\* The end of a poll pass: the join returns the struct, or stays pending.
EndPass ==
    /\ pc = "polling"
    /\ idx > Len(JoinOrder)
    /\ IF JoinReady(st)
       THEN pc' = "returned" /\ resp' = Some(AllHealthResponse(slot))
       ELSE pc' = "pending" /\ resp' = resp
    /\ UNCHANGED <<idx, st, started, outcome, slot, now, calls, probeVars, tailVars, validVars, storeVars>>

\* A request has something to deliver: its waker reschedules the task.
WakeReady == \E p \in HttpProbes : st[p] = "inflight" /\ outcome[p] # None

Wake ==
    /\ pc = "pending"
    /\ WakeReady
    /\ pc' = "polling"
    /\ idx' = 1
    /\ UNCHANGED <<st, started, outcome, slot, resp, now, calls, probeVars, tailVars, validVars, storeVars>>

\* The deadline of the reqwest timeout of p's request.
Deadline(p) == started[p] + TimeoutSecs

\* The delays after which a backend answers, when it answers in time.
AnswerDelays == {0, 2}

\* The backend answers, or the connection fails, before the timeout.
NetRespond(p) ==
    /\ p \in HttpProbes
    /\ st[p] = "inflight"
    /\ outcome[p] = None
    /\ now < Deadline(p)
    /\ now - started[p] \in AnswerDelays
    /\ \E o \in {Response(c) : c \in HttpCodes} \cup {SendErr("connection refused")} :
          outcome' = [outcome EXCEPT ![p] = Some(o)]
    /\ UNCHANGED <<pc, idx, st, started, slot, resp, now, calls, probeVars, tailVars, validVars, storeVars>>

\* The 5 s timeout of the request expires.
NetTimeout(p) ==
    /\ p \in HttpProbes
    /\ st[p] = "inflight"
    /\ outcome[p] = None
    /\ now >= Deadline(p)
    /\ outcome' = [outcome EXCEPT ![p] = Some(SendErr("operation timed out"))]
    /\ UNCHANGED <<pc, idx, st, started, slot, resp, now, calls, probeVars, tailVars, validVars, storeVars>>

\* One second passes.  The task is waiting, or its thread is blocked in
\* Command::output(); no request is past its deadline without its timeout.
Tick ==
    /\ now < MaxTime
    /\ \/ pc = "pending" /\ ~WakeReady
       \/ st["redis"] = "blocked"
    /\ \A p \in HttpProbes : (st[p] = "inflight" /\ outcome[p] = None) => now < Deadline(p)
    /\ now' = now + 1
    /\ UNCHANGED <<pc, idx, st, started, outcome, slot, resp, calls, probeVars, tailVars, validVars, storeVars>>

Next ==
    \/ GetAllHealth
    \/ \E p \in HttpProbes : PollHttp(p)
    \/ PollRedisSpawnFails
    \/ PollRedisSpawn
    \/ RedisExit
    \/ PollRedisDone
    \/ EndPass
    \/ Wake
    \/ \E p \in HttpProbes : NetRespond(p)
    \/ \E p \in HttpProbes : NetTimeout(p)
    \/ Tick

ProbeIdle == probeReq = None /\ probeRes = None
TailIdle == logs = None /\ tailReq = None /\ tailRes = None
ValidIdle == cfg = None /\ vres = None
StoreIdle == disk = None /\ held = None /\ sres = None

Init == HealthInit /\ ProbeIdle /\ TailIdle /\ ValidIdle /\ StoreIdle
Spec == Init /\ [][Next]_vars

(***************************************************************************)
(* The probes on their own: Init draws a probe and the outcome its call     *)
(* meets; the action applies the probe.                                     *)
(***************************************************************************)
MaxElapsed == 2       \* elapsed seconds drawn for a lone HTTP probe: 0..MaxElapsed

HttpOutcomes ==
    {Response(c) : c \in StatusCodes} \cup {SendErr(e) : e \in SendErrors} \cup {BuildErr}

ProbeRequests ==
    [probe : HttpProbes, sent : HttpOutcomes, output : {SpawnErr}, elapsed : 0..MaxElapsed]
    \cup [probe : {"redis"}, sent : {BuildErr}, output : {SpawnErr} \cup {Exited(o) : o \in Stdouts},
          elapsed : {0}]

ProbeInit ==
    /\ probeReq \in {Some(r) : r \in ProbeRequests}
    /\ probeRes = None

\* check_router_health, check_litellm_health, check_ollama_health,
\* check_langfuse_health invoked on their own.
CheckHttpHealth ==
    /\ probeRes = None
    /\ probeReq # None
    /\ probeReq[1].probe \in HttpProbes
    /\ probeRes' = Some(check_http_health(ServiceName(probeReq[1].probe),
                                          probeReq[1].sent, probeReq[1].elapsed))
    /\ UNCHANGED <<probeReq, healthVars, tailVars, validVars, storeVars>>

\* check_redis_health invoked on its own.
CheckRedisHealth ==
    /\ probeRes = None
    /\ probeReq # None
    /\ probeReq[1].probe = "redis"
    /\ probeRes' = Some(check_redis_health(probeReq[1].output))
    /\ UNCHANGED <<probeReq, healthVars, tailVars, validVars, storeVars>>

HealthIdle ==
    /\ pc = "idle"
    /\ idx = 1
    /\ st = [p \in Probes |-> "init"]
    /\ started = [p \in Probes |-> 0]
    /\ outcome = [p \in Probes |-> None]
    /\ slot = [p \in Probes |-> None]
    /\ resp = None
    /\ now = 0
    /\ calls = 0

InitProbe == ProbeInit /\ HealthIdle /\ TailIdle /\ ValidIdle /\ StoreIdle
NextProbe ==
    \/ CheckHttpHealth
    \/ CheckRedisHealth
SpecProbe == InitProbe /\ [][NextProbe]_vars

(***************************************************************************)
(* Claims about the health probes and get_all_health.                       *)
(***************************************************************************)
\* The field of an AllHealthResponse that belongs to probe p.
RespField(r, p) ==
    CASE p = "router" -> r.router
      [] p = "litellm" -> r.litellm
      [] p = "ollama" -> r.ollama
      [] p = "redis" -> r.redis
      [] p = "langfuse" -> r.langfuse

\* s is PONG with nothing but whitespace around it.
PongPadded(s) ==
    \E i \in 0..Len(s) :
        /\ i + Len(PONG) <= Len(s)
        /\ SubSeq(s, i + 1, i + Len(PONG)) = PONG
        /\ \A k \in 1..Len(s) :
              (k <= i \/ k > i + Len(PONG)) => s[k] \in {" ", "\n", "\t", "\r"}

\* The probe's call failed: no 2xx answer, or no PONG.
HttpFailed(o) == o.kind # "resp" \/ o.code < 200 \/ o.code > 299
RedisFailed(o) == ~o.ok \/ ~PongPadded(o.stdout)
ProbeFailed(p) ==
    IF p = "redis" THEN RedisFailed(outcome[p][1]) ELSE HttpFailed(outcome[p][1])

\* C1: whenever get_all_health has returned, each of the five fields of the
\* response holds a HealthStatus of its own service, whatever the outcomes of
\* the five probes were, and the field of a probe whose call failed has
\* healthy = FALSE.  (The call has no error result: it ends in "returned".)
C1_EverySlotHoldsStatus ==
    pc = "returned" =>
        /\ resp # None
        /\ \A p \in Probes :
              /\ RespField(resp[1], p) # None
              /\ RespField(resp[1], p)[1].service = ServiceName(p)
              /\ RespField(resp[1], p)[1].healthy \in BOOLEAN
              /\ ProbeFailed(p) => RespField(resp[1], p)[1].healthy = FALSE

\* Witness of C1: a call has returned with all five backends unreachable.
C1_Witness ==
    /\ pc = "returned"
    /\ \A p \in HttpProbes : outcome[p] = Some(SendErr("connection refused"))
    /\ outcome["redis"] = Some(SpawnErr)
    /\ \A p \in Probes : RespField(resp[1], p)[1].healthy = FALSE

\* C2: get_all_health has returned only if every one of the five probes has
\* completed, and the response carries exactly the outputs they produced.
C2_ReturnAfterAllProbes ==
    pc = "returned" =>
        \A p \in Probes :
            /\ st[p] = "done"
            /\ slot[p] # None
            /\ RespField(resp[1], p) = slot[p]

\* Witness of C2: a call has returned in which the last future of the join
\* (langfuse) finished at once and the first one (router) two seconds later.
C2_Witness ==
    /\ pc = "returned"
    /\ started["langfuse"] = 0
    /\ slot["langfuse"][1].latency_ms = Some(0)
    /\ slot["router"][1].latency_ms = Some(2)

\* A step of the task that runs get_all_health.
TaskStep ==
    \/ \E p \in HttpProbes : PollHttp(p)
    \/ PollRedisSpawnFails
    \/ PollRedisSpawn
    \/ PollRedisDone
    \/ EndPass
    \/ Wake

\* C3: while the cache probe waits for redis-cli to exit, every other probe
\* can still go on: one that has not been started can be started, and one
\* whose request has its answer can complete (the task polls it, now or after
\* further steps of its own).
C3_BlockedProbeStallsNoOther ==
    st["redis"] = "blocked" =>
        \A q \in HttpProbes :
            (st[q] = "init" \/ (st[q] = "inflight" /\ outcome[q] # None))
                => (ENABLED PollHttp(q) \/ ENABLED TaskStep)

\* C4: a call that has returned took no longer than the 5 s ceiling of a
\* single probe (now counts the seconds since the call began).
C4_ReturnsWithinProbeCeiling ==
    pc = "returned" => now <= TimeoutSecs

\* C5: the status of an HTTP probe is decided by the outcome of its call:
\* 2xx gives healthy with the latency, any other status unhealthy with the
\* latency, a send or client-build failure unhealthy without latency and with
\* the error text in the message.
C5_HttpStatusFromOutcome ==
    (probeRes # None /\ probeReq[1].probe \in HttpProbes) =>
        LET o == probeReq[1].sent
            h == probeRes[1]
        IN  /\ (o.kind = "resp" /\ o.code \in 200..299) =>
                  (h.healthy = TRUE /\ h.latency_ms = Some(probeReq[1].elapsed))
            /\ (o.kind = "resp" /\ o.code \notin 200..299) =>
                  (h.healthy = FALSE /\ h.latency_ms = Some(probeReq[1].elapsed))
            /\ o.kind \in {"send_err", "build_err"} =>
                  (h.healthy = FALSE /\ h.latency_ms = None
                   /\ h.message[Len(h.message)] = o.err)
            /\ h.healthy = TRUE => h.latency_ms # None
            /\ h.latency_ms = None => h.healthy = FALSE

\* Witness of C5: a probe answered with status 299 has been reported healthy.
C5_Witness ==
    /\ probeRes # None
    /\ probeReq[1].probe \in HttpProbes
    /\ probeReq[1].sent = Response(299)
    /\ probeRes[1].healthy = TRUE

\* C6: the cache probe is healthy exactly when redis-cli was spawned and its
\* stdout is PONG up to surrounding whitespace; its latency is never
\* recorded; and the message of a spawn failure differs from the message of
\* every unexpected output.
C6_RedisHealthyIffPong ==
    (probeRes # None /\ probeReq[1].probe = "redis") =>
        LET o == probeReq[1].output
            h == probeRes[1]
        IN  /\ h.healthy = (o.ok /\ PongPadded(o.stdout))
            /\ h.latency_ms = None
            /\ ~h.healthy =>
                  /\ h.message[1] = (IF o.ok THEN "Unexpected response: " ELSE "Error: ")
                  /\ \A s \in Stdouts :
                        ~PongPadded(s) =>
                            check_redis_health(SpawnErr).message[1]
                                # check_redis_health(Exited(s)).message[1]

\* Witness of C6: stdout " PONG\r\n" has been reported healthy.
C6_Witness ==
    /\ probeRes # None
    /\ probeReq[1].probe = "redis"
    /\ probeReq[1].output = Exited(<<" ">> \o PONG \o <<"\r", "\n">>)
    /\ probeRes[1].healthy = TRUE

(***************************************************************************)
(* read_log_tail.  A log file is a sequence of newline-terminated lines; a  *)
(* line is known by its number in the file and the length of its text, so   *)
(* that files of 64 KiB and more stay small in the model.  A string read    *)
(* from the file is a line, or what is left of a line after cut bytes.      *)
(***************************************************************************)
MaxFileLines == 3     \* lines in the log directory, over both files
MaxReqLines == 3      \* the lines argument ranges over 0..MaxReqLines

TailWindow == 65536   \* the 64 KiB of read_log_tail

\* Text lengths of the lines the services write.
LineLens == {0, 9, 32767, 65534, 65535}

LogFiles == {"router.out.log", "litellm.out.log"}
Services == {"router", "litellm", "ollama"}

\* The match on service: the log file of a known service.
Filename(service) ==
    CASE service = "router" -> Some("router.out.log")
      [] service = "litellm" -> Some("litellm.out.log")
      [] OTHER -> None

Ok(v) == [ok |-> TRUE, lines |-> v, err |-> ""]
Err(e) == [ok |-> FALSE, lines |-> <<>>, err |-> e]

TextLine(i, cut, len) == [kind |-> "text", file |-> "", id |-> i, cut |-> cut, len |-> len]
NotFoundLine(file) == [kind |-> "Log file not found: ", file |-> file, id |-> 0, cut |-> 0, len |-> 0]

\* metadata.len(): every line takes its text and one newline.
RECURSIVE FileSize(_)
FileSize(f) == IF f = <<>> THEN 0 ELSE f[1].len + 1 + FileSize(Tail(f))

\* BufReader::lines() on the file positioned at byte pos; off is the offset
\* of the first line of f.
RECURSIVE lines_from(_, _, _)
lines_from(f, off, pos) ==
    IF f = <<>> THEN <<>>
    ELSE LET l == f[1]
             end == off + l.len + 1
         IN  IF end <= pos
             THEN lines_from(Tail(f), end, pos)
             ELSE IF off >= pos
                  THEN <<TextLine(l.id, 0, l.len)>> \o lines_from(Tail(f), end, pos)
                  ELSE <<TextLine(l.id, pos - off, end - 1 - pos)>>
                           \o lines_from(Tail(f), end, pos)

\* Mutant: the operands are taken the other way round.
saturating_sub_Swapped(a, b) == IF b > a THEN b - a ELSE 0

\* usize::saturating_sub / u64::saturating_sub
saturating_sub(a, b) == IF a > b THEN a - b ELSE 0

\* all_lines[start..].to_vec()
SliceFrom(all, start) == SubSeq(all, start + 1, Len(all))

\* Mutant: a missing log file is reported like a file that cannot be opened.
NotFoundResult_Hard(file) == Err("Failed to open log")

\* The early return for a log file that does not exist.
NotFoundResult(file) == Ok(<<NotFoundLine(file)>>)

\* if seek_pos > 0 && !all_lines.is_empty() { all_lines.remove(0); }
DropFirst(all, seek_pos) ==
    IF seek_pos > 0 /\ all # <<>> THEN Tail(all) ELSE all

\* Faults a call can meet: none, or the failure of one of its system calls.
Faults == {"none", "home", "open", "metadata", "seek"}

\* read_log_tail(service, lines) on the log directory fs, meeting fault.
read_log_tail(service, lines, fault, fs) ==
    IF fault = "home" THEN Err("Could not find home directory")
    ELSE IF Filename(service) = None THEN Err("Unknown service: ")
    ELSE LET file == Filename(service)[1] IN
      IF fs[file] = None THEN NotFoundResult(file)
      ELSE IF fault = "open" THEN Err("Failed to open log: ")
      ELSE IF fault = "metadata" THEN Err("Failed to get file metadata: ")
      ELSE LET f == fs[file][1]
               file_size == FileSize(f)
           IN  IF file_size < TailWindow
               THEN LET all_lines == lines_from(f, 0, 0)
                        start == saturating_sub(Len(all_lines), lines)
                    IN  Ok(SliceFrom(all_lines, start))
               ELSE LET seek_pos == saturating_sub(file_size, TailWindow) IN
                    IF fault = "seek" THEN Err("Failed to seek: ")
                    ELSE LET all_lines == DropFirst(lines_from(f, 0, seek_pos), seek_pos)
                             start == saturating_sub(Len(all_lines), lines)
                         IN  Ok(SliceFrom(all_lines, start))

RECURSIVE TotalLines(_, _)
TotalLines(fs, names) ==
    IF names = {} THEN 0
    ELSE LET n == CHOOSE x \in names : TRUE
         IN  (IF fs[n] = None THEN 0 ELSE Len(fs[n][1])) + TotalLines(fs, names \ {n})

TailInit ==
    /\ logs = [n \in LogFiles |-> None]
    /\ tailReq = None
    /\ tailRes = None

\* The log files change between calls: a call reads the files as they are
\* when it runs, and its result is kept beside them until the caller takes it.

\* A service opens its log file for the first time.
CreateLog(n) ==
    /\ tailReq = None
    /\ logs[n] = None
    /\ logs' = [logs EXCEPT ![n] = Some(<<>>)]
    /\ UNCHANGED <<tailReq, tailRes, healthVars, probeVars, validVars, storeVars>>

\* A service appends one line to its log file.
AppendLog(n) ==
    /\ tailReq = None
    /\ logs[n] # None
    /\ TotalLines(logs, LogFiles) < MaxFileLines
    /\ \E len \in LineLens :
          logs' = [logs EXCEPT ![n] =
                      Some(Append(logs[n][1], [id |-> Len(logs[n][1]) + 1, len |-> len]))]
    /\ UNCHANGED <<tailReq, tailRes, healthVars, probeVars, validVars, storeVars>>

\* The read_log_tail command.
ReadLogTail ==
    \E service \in Services, lines \in 0..MaxReqLines, fault \in Faults :
        /\ tailReq = None
        /\ tailReq' = Some([service |-> service, lines |-> lines, fault |-> fault])
        /\ tailRes' = Some(read_log_tail(service, lines, fault, logs))
        /\ UNCHANGED <<logs, healthVars, probeVars, validVars, storeVars>>

\* The caller has taken the result; nothing of the call is kept.
TailDone ==
    /\ tailReq # None
    /\ tailReq' = None
    /\ tailRes' = None
    /\ UNCHANGED <<logs, healthVars, probeVars, validVars, storeVars>>

InitTail == TailInit /\ HealthIdle /\ ProbeIdle /\ ValidIdle /\ StoreIdle
NextTail ==
    \/ \E n \in LogFiles : CreateLog(n)
    \/ \E n \in LogFiles : AppendLog(n)
    \/ ReadLogTail
    \/ TailDone
SpecTail == InitTail /\ [][NextTail]_vars

(***************************************************************************)
(* Claims about read_log_tail.                                              *)
(***************************************************************************)
\* The lines of a whole file, as a reference read gives them.
FullLines(f) == [i \in 1..Len(f) |-> TextLine(f[i].id, 0, f[i].len)]

\* The last k elements of a sequence (all of it when it has fewer).
LastN(seq, k) ==
    IF k >= Len(seq) THEN seq ELSE SubSeq(seq, Len(seq) - k + 1, Len(seq))

Min(a, b) == IF a < b THEN a ELSE b

\* The log file the last request is about, when its service is known and its
\* home directory was found.
ReqResolved == tailReq # None /\ tailReq[1].fault # "home" /\ Filename(tailReq[1].service) # None
ReqFile == logs[Filename(tailReq[1].service)[1]]

\* C7: for a known service whose log file does not exist, read_log_tail
\* returns Ok with exactly one line, the "Log file not found" line, whatever
\* the line count; only the missing file is answered this way: a failure to
\* open the file, to get its metadata or to seek in it is an Err.
C7_MissingLogIsOneInfoLine ==
    (ReqResolved /\ tailRes # None) =>
        /\ ReqFile = None =>
              /\ tailRes[1].ok
              /\ Len(tailRes[1].lines) = 1
              /\ tailRes[1].lines[1].kind = "Log file not found: "
        /\ (ReqFile # None /\ tailReq[1].fault \in {"open", "metadata"}) => ~tailRes[1].ok
        /\ (ReqFile # None /\ tailReq[1].fault = "seek" /\ FileSize(ReqFile[1]) >= 65536)
              => ~tailRes[1].ok
        /\ (tailRes[1].ok /\ \E i \in 1..Len(tailRes[1].lines) :
                                 tailRes[1].lines[i].kind # "text")
              => ReqFile = None

\* Witness of C7: a request for 3 lines of a missing router log was answered
\* with the one informational line.
C7_Witness ==
    /\ tailReq = Some([service |-> "router", lines |-> 3, fault |-> "none"])
    /\ logs["router.out.log"] = None
    /\ tailRes = Some(Ok(<<NotFoundLine("router.out.log")>>))

\* The last request read an existing file without meeting a fault.
ReadOk == ReqResolved /\ tailRes # None /\ ReqFile # None /\ tailReq[1].fault = "none"

RECURSIVE LineStart(_, _)
LineStart(f, i) == IF i = 1 THEN 0 ELSE LineStart(f, i - 1) + f[i - 1].len + 1

\* The lines of f that lie wholly in its final 64 KiB.
WindowLines(f) ==
    LET pos == FileSize(f) - 65536
    IN  Cardinality({i \in 1..Len(f) : LineStart(f, i) >= pos})

\* C9: for a file of 64 KiB or more whose final 64 KiB holds at least
\* `lines` whole lines, the result is exactly the last `lines` lines of the
\* file, as a read of the whole file gives them; in particular a whole line
\* that starts exactly at the seek position is not lost.
C9_LargeFileLastLines ==
    (ReadOk /\ FileSize(ReqFile[1]) >= 65536
            /\ WindowLines(ReqFile[1]) >= tailReq[1].lines) =>
        /\ tailRes[1].ok
        /\ tailRes[1].lines = LastN(FullLines(ReqFile[1]), tailReq[1].lines)

(***************************************************************************)
(* validate_config.                                                         *)
(***************************************************************************)
MaxModels == 2        \* entries of model_list

\* str::starts_with on character sequences.
starts_with(s, prefix) ==
    Len(s) >= Len(prefix) /\ SubSeq(s, 1, Len(prefix)) = prefix

HttpPrefix == <<"h", "t", "t", "p">>

\* The api_base values of the configs checked.
ApiBases ==
    { <<"h","t","t","p",":","/","/","l","o","c","a","l","h","o","s","t",":","1","1","4","3","4">>,
      <<"h","t","t","p","s",":","/","/","a","p","i">>,
      <<"i","n","v","a","l","i","d","-","u","r","l">>,
      <<"H","T","T","P",":","/","/","x">>,
      <<"h","t","t">>,
      <<>> }

ModelNames == {"", "llama-fast", "qwen-local"}

ModelConfig(name, model, api_base) ==
    [model_name |-> name, litellm_params |-> [model |-> model, api_base |-> api_base]]

ModelConfigs == {ModelConfig(n, "ollama/test", b) : n \in ModelNames, b \in ApiBases}

RECURSIVE SeqsUpTo(_, _)
SeqsUpTo(S, n) ==
    IF n = 0 THEN {<<>>}
    ELSE LET shorter == SeqsUpTo(S, n - 1)
         IN  shorter \cup {Append(q, x) : q \in {r \in shorter : Len(r) = n - 1}, x \in S}

\* serde_yaml::Value: the null value and a mapping.
Null == <<"Null">>
Mapping(m) == <<"Mapping", m>>

Config(model_list) ==
    [model_list |-> model_list, litellm_settings |-> Null,
     router_settings |-> Null, general_settings |-> Null]

Configs == {Config(l) : l \in SeqsUpTo(ModelConfigs, MaxModels)}

\* Mutant: the api_base of an entry is checked only when its name is not
\* empty (else if).
RECURSIVE ModelErrors_ElseIf(_)
ModelErrors_ElseIf(list) ==
    IF list = <<>> THEN <<>>
    ELSE LET model == Head(list)
         IN  (IF model.model_name = ""
              THEN <<<<"Model name cannot be empty">>>>
              ELSE IF ~starts_with(model.litellm_params.api_base, HttpPrefix)
                   THEN <<<<"Invalid api_base for ", model.model_name,
                            ": must start with http(s)">>>>
                   ELSE <<>>)
             \o ModelErrors_ElseIf(Tail(list))

\* The errors the loop over model_list pushes, in order.
RECURSIVE ModelErrors(_)
ModelErrors(list) ==
    IF list = <<>> THEN <<>>
    ELSE LET model == Head(list)
         IN  (IF model.model_name = ""
              THEN <<<<"Model name cannot be empty">>>> ELSE <<>>)
             \o (IF ~starts_with(model.litellm_params.api_base, HttpPrefix)
                 THEN <<<<"Invalid api_base for ", model.model_name,
                          ": must start with http(s)">>>>
                 ELSE <<>>)
             \o ModelErrors(Tail(list))

\* Mutant: warnings count against validity too.
IsValid_NoWarnings(errors, warnings) == errors = <<>> /\ warnings = <<>>

\* valid: errors.is_empty()
IsValid(errors, warnings) == errors = <<>>

\* Mutant: the check for an empty model_list is left out.
EmptyListErrors_Never(model_list) == <<>>

\* if config.model_list.is_empty() { errors.push(...) }
EmptyListErrors(model_list) ==
    IF model_list = <<>>
    THEN <<<<"At least one model must be configured">>>> ELSE <<>>

\* Mutant: only the first element is compared.
contains_FirstOnly(v, x) == v # <<>> /\ v[1] = x

\* <[T]>::contains
contains(v, x) == \E i \in 1..Len(v) : v[i] = x

\* validate_config(config)
validate_config(config) ==
    LET errors == EmptyListErrors(config.model_list) \o ModelErrors(config.model_list)
        model_names == [i \in 1..Len(config.model_list) |-> config.model_list[i].model_name]
        warnings ==
            IF ~contains(model_names, "llama-fast")
            THEN <<<<"Recommended: Add 'llama-fast' model for quick responses">>>>
            ELSE <<>>
    IN  [valid |-> IsValid(errors, warnings), errors |-> errors, warnings |-> warnings]

ValidInit ==
    /\ cfg \in {Some(c) : c \in Configs}
    /\ vres = None

\* The validate_config command.
ValidateConfig ==
    /\ vres = None
    /\ vres' = Some(validate_config(cfg[1]))
    /\ UNCHANGED <<cfg, healthVars, probeVars, tailVars, storeVars>>

InitValidate == ValidInit /\ HealthIdle /\ ProbeIdle /\ TailIdle /\ StoreIdle
NextValidate ==
    \/ ValidateConfig
SpecValidate == InitValidate /\ [][NextValidate]_vars

(***************************************************************************)
(* Claims about validate_config.                                            *)
(***************************************************************************)
\* An entry breaks a rule: its name is empty or its api_base has no "http" in front.
EntryBad(m) ==
    \/ m.model_name = ""
    \/ Len(m.litellm_params.api_base) < 4
    \/ m.litellm_params.api_base[1] # "h" \/ m.litellm_params.api_base[2] # "t"
    \/ m.litellm_params.api_base[3] # "t" \/ m.litellm_params.api_base[4] # "p"

\* C10: the result of validate_config has valid = TRUE exactly when its
\* errors are empty, with or without warnings; and errors are empty exactly
\* when the config has a model and no entry breaks a rule, so a config with
\* warnings only is valid and one with errors is not.
C10_ValidIffNoErrors ==
    vres # None =>
        /\ vres[1].valid = (vres[1].errors = <<>>)
        /\ (vres[1].errors = <<>>) =
              (cfg[1].model_list # <<>>
               /\ \A i \in 1..Len(cfg[1].model_list) : ~EntryBad(cfg[1].model_list[i]))

\* Witness of C10: a config with a warning and no error has been found valid.
C10_Witness ==
    /\ vres # None
    /\ vres[1].valid = TRUE
    /\ vres[1].errors = <<>>
    /\ vres[1].warnings # <<>>

\* The characters of the string literals and names that make up the messages.
Chars(str) ==
    CASE str = "" -> <<>>
      [] str = "At least one model must be configured" ->
        <<"A","t"," ","l","e","a","s","t"," ","o","n","e"," ","m","o","d","e","l"," ",
          "m","u","s","t"," ","b","e"," ","c","o","n","f","i","g","u","r","e","d">>
      [] str = "Model name cannot be empty" ->
        <<"M","o","d","e","l"," ","n","a","m","e"," ","c","a","n","n","o","t"," ","b",
          "e"," ","e","m","p","t","y">>
      [] str = "Invalid api_base for " ->
        <<"I","n","v","a","l","i","d"," ","a","p","i","_","b","a","s","e"," ","f","o",
          "r"," ">>
      [] str = ": must start with http(s)" ->
        <<":"," ","m","u","s","t"," ","s","t","a","r","t"," ","w","i","t","h"," ","h",
          "t","t","p","(","s",")">>
      [] str = "Recommended: Add 'llama-fast' model for quick responses" ->
        <<"R","e","c","o","m","m","e","n","d","e","d",":"," ","A","d","d"," ","'","l",
          "l","a","m","a","-","f","a","s","t","'"," ","m","o","d","e","l"," ","f","o",
          "r"," ","q","u","i","c","k"," ","r","e","s","p","o","n","s","e","s">>
      [] str = "llama-fast" ->
        <<"l","l","a","m","a","-","f","a","s","t">>
      [] str = "qwen-local" ->
        <<"q","w","e","n","-","l","o","c","a","l">>

\* The text of a message: format! puts its parts one after the other.
RECURSIVE Render(_)
Render(msg) == IF msg = <<>> THEN <<>> ELSE Chars(Head(msg)) \o Render(Tail(msg))

\* str::contains on character sequences.
Contains(text, sub) ==
    \E i \in 0..(Len(text) - Len(sub)) : SubSeq(text, i + 1, i + Len(sub)) = sub

\* Some message of msgs contains sub.
AnyContains(msgs, sub) == \E i \in 1..Len(msgs) : Contains(Render(msgs[i]), sub)

\* C11 as stated: for an empty model_list the result is invalid and some
\* error contains the text "at least one model".
C11_EmptyListErrorLowerCase ==
    (vres # None /\ cfg[1].model_list = <<>>) =>
        /\ vres[1].valid = FALSE
        /\ AnyContains(vres[1].errors,
              <<"a","t"," ","l","e","a","s","t"," ","o","n","e"," ","m","o","d","e","l">>)

\* C11 as amended: for an empty model_list the result is invalid and some
\* error contains the text "At least one model" (the error is "At least one
\* model must be configured", with a capital A).
C11_EmptyListError ==
    (vres # None /\ cfg[1].model_list = <<>>) =>
        /\ vres[1].valid = FALSE
        /\ AnyContains(vres[1].errors,
              <<"A","t"," ","l","e","a","s","t"," ","o","n","e"," ","m","o","d","e","l">>)
        /\ \E i \in 1..Len(vres[1].errors) :
              Render(vres[1].errors[i]) =
                  <<"A","t"," ","l","e","a","s","t"," ","o","n","e"," ","m","o","d","e","l",
                    " ","m","u","s","t"," ","b","e"," ","c","o","n","f","i","g","u","r","e","d">>

\* Witness of C11: a config without models has been validated.
C11_Witness ==
    /\ vres # None
    /\ cfg[1].model_list = <<>>
    /\ vres[1].valid = FALSE
    /\ Len(vres[1].errors) = 1

\* An entry is well formed: it has a name and its api_base starts with http.
WellFormed(m) == ~EntryBad(m)

\* C12: there is exactly one warning, mentioning 'llama-fast', when no entry
\* of model_list is named llama-fast (an empty list included), and no warning
\* when some entry is; a config of one well-formed entry is valid either way.
C12_WarningIffNoLlamaFast ==
    vres # None =>
        LET list == cfg[1].model_list
            named == \E i \in 1..Len(list) : list[i].model_name = "llama-fast"
        IN  /\ named => vres[1].warnings = <<>>
            /\ ~named =>
                  /\ Len(vres[1].warnings) = 1
                  /\ AnyContains(vres[1].warnings,
                        <<"l","l","a","m","a","-","f","a","s","t">>)
            /\ (Len(list) = 1 /\ WellFormed(list[1])) => vres[1].valid = TRUE

\* Witness of C12: two entries, the second one named llama-fast, gave no warning.
C12_Witness ==
    /\ vres # None
    /\ Len(cfg[1].model_list) = 2
    /\ cfg[1].model_list[1].model_name = "qwen-local"
    /\ cfg[1].model_list[2].model_name = "llama-fast"
    /\ vres[1].warnings = <<>>

\* The number of errors entry m gives rise to.
ErrorsOf(m) ==
    (IF m.model_name = "" THEN 1 ELSE 0)
    + (IF Len(m.litellm_params.api_base) >= 4
          /\ m.litellm_params.api_base[1] = "h" /\ m.litellm_params.api_base[2] = "t"
          /\ m.litellm_params.api_base[3] = "t" /\ m.litellm_params.api_base[4] = "p"
       THEN 0 ELSE 1)

\* The number of errors that precede those of entry i: the "no models"
\* error and the errors of the entries before it.
RECURSIVE ErrorsBefore(_, _)
ErrorsBefore(list, i) ==
    IF i = 1 THEN (IF list = <<>> THEN 1 ELSE 0)
    ELSE ErrorsBefore(list, i - 1) + ErrorsOf(list[i - 1])

\* C15: every violation is collected, in a fixed order: the "no models"
\* error if the list is empty, then entry by entry an error for an empty
\* name followed by an error naming the model for a bad api_base.  The
\* errors of entry i sit right after the errors of the entries before it.
C15_AllErrorsInOrder ==
    vres # None =>
        LET list == cfg[1].model_list
            errors == vres[1].errors
        IN  /\ Len(errors) = ErrorsBefore(list, Len(list) + 1)
            /\ list = <<>> => errors[1] = <<"At least one model must be configured">>
            /\ \A i \in 1..Len(list) :
                  LET at == ErrorsBefore(list, i)
                      nameBad == list[i].model_name = ""
                  IN  /\ nameBad => errors[at + 1] = <<"Model name cannot be empty">>
                      /\ ErrorsOf(list[i]) > (IF nameBad THEN 1 ELSE 0) =>
                            LET e == errors[at + ErrorsOf(list[i])]
                            IN  /\ Len(e) = 3
                                /\ e[1] = "Invalid api_base for "
                                /\ e[2] = list[i].model_name

\* Witness of C15: the first entry broke both rules and the second one the
\* api_base rule; three errors were reported.
C15_Witness ==
    /\ vres # None
    /\ Len(cfg[1].model_list) = 2
    /\ ErrorsOf(cfg[1].model_list[1]) = 2
    /\ ErrorsOf(cfg[1].model_list[2]) = 1
    /\ cfg[1].model_list[2].model_name = "qwen-local"
    /\ Len(vres[1].errors) = 3

(***************************************************************************)
(* read_config, write_config, read_policy, write_policy.                   *)
(* A YAML mapping is a function from its keys to its values.  The content  *)
(* of a file is what the YAML parser makes of its text: a document, or     *)
(* nothing it can read.                                                     *)
(***************************************************************************)
Malformed == <<"Malformed">>
Document(doc) == <<"Document", doc>>

\* Result<T, String> of the four commands; err is the message, part by part.
StoreOk(v) == [ok |-> TRUE, value |-> Some(v), err |-> <<>>]
StoreErr(e) == [ok |-> FALSE, value |-> None, err |-> e]

\* #[serde(default)]: the field's value if the key is there, else the default.
field_or_default(m, k, d) == IF k \in DOMAIN m THEN m[k] ELSE d

\* A struct whose fields are all #[serde(default)], read from mapping m: the
\* keys that are not fields of the struct are skipped.
struct_from(m, defaults) == [k \in DOMAIN defaults |-> field_or_default(m, k, defaults[k])]

\* Deserialize for LiteLLMParams and ModelConfig: every field is required.
ParamsOk(p) == {"model", "api_base"} \subseteq DOMAIN p
EntryOk(e) ==
    /\ {"model_name", "litellm_params"} \subseteq DOMAIN e
    /\ ParamsOk(e["litellm_params"])
ModelConfig_from(e) ==
    ModelConfig(e["model_name"], e["litellm_params"]["model"],
                e["litellm_params"]["api_base"])

\* serde_yaml::from_str::<Config>: model_list is required, the three settings
\* sections default to Value::Null, any other key is skipped.
Config_from_str(content) ==
    IF content[1] # "Document" THEN StoreErr(<<"did not find expected node content">>)
    ELSE LET doc == content[2]
         IN  IF "model_list" \notin DOMAIN doc
             THEN StoreErr(<<"missing field model_list">>)
             ELSE IF \E i \in 1..Len(doc["model_list"]) : ~EntryOk(doc["model_list"][i])
             THEN StoreErr(<<"model_list: missing field">>)
             ELSE StoreOk(
                 [model_list |-> [i \in 1..Len(doc["model_list"]) |->
                                     ModelConfig_from(doc["model_list"][i])],
                  litellm_settings |-> field_or_default(doc, "litellm_settings", Null),
                  router_settings |-> field_or_default(doc, "router_settings", Null),
                  general_settings |-> field_or_default(doc, "general_settings", Null)])

\* serde_yaml::to_string(&Config): the fields of the structs, and nothing else.
Config_to_string(config) ==
    Document(
        [model_list |-> [i \in 1..Len(config.model_list) |->
            [model_name |-> config.model_list[i].model_name,
             litellm_params |->
                 [model |-> config.model_list[i].litellm_params.model,
                  api_base |-> config.model_list[i].litellm_params.api_base]]],
         litellm_settings |-> config.litellm_settings,
         router_settings |-> config.router_settings,
         general_settings |-> config.general_settings])

\* #[derive(Default)] of the three sub-policies.
PrivacyDefault ==
    [enabled |-> FALSE, pii_regexes |-> <<>>, entropy_threshold |-> 0,
     min_token_length |-> 0, sensitive_model |-> ""]
ComplexityDefault ==
    [enabled |-> FALSE, simple_max_tokens |-> 0, medium_max_tokens |-> 0,
     code_signals |-> <<>>, reasoning_signals |-> <<>>]
InjectionDefault == [enabled |-> FALSE, patterns |-> <<>>, block_on_injection |-> FALSE]

\* serde_yaml::from_str::<RoutingPolicy>: every field is #[serde(default)].
RoutingPolicy_from_str(content) ==
    IF content[1] # "Document" THEN StoreErr(<<"did not find expected node content">>)
    ELSE LET doc == content[2]
         IN  StoreOk(
                 [version |-> field_or_default(doc, "version", ""),
                  privacy |-> IF "privacy" \in DOMAIN doc
                              THEN struct_from(doc["privacy"], PrivacyDefault)
                              ELSE PrivacyDefault,
                  complexity |-> IF "complexity" \in DOMAIN doc
                                 THEN struct_from(doc["complexity"], ComplexityDefault)
                                 ELSE ComplexityDefault,
                  injection |-> IF "injection" \in DOMAIN doc
                                THEN struct_from(doc["injection"], InjectionDefault)
                                ELSE InjectionDefault,
                  routing |-> field_or_default(doc, "routing", Null)])

\* serde_yaml::to_string(&RoutingPolicy)
RoutingPolicy_to_string(policy) ==
    Document(
        [version |-> policy.version,
         privacy |-> [k \in DOMAIN PrivacyDefault |-> policy.privacy[k]],
         complexity |-> [k \in DOMAIN ComplexityDefault |-> policy.complexity[k]],
         injection |-> [k \in DOMAIN InjectionDefault |-> policy.injection[k]],
         routing |-> policy.routing])

\* get_config_dir()?: None when dirs::home_dir() finds no home directory.
HomeErr == StoreErr(<<"Could not find home directory">>)

\* Prefix the message of a failed step, as map_err(|e| format!(..)) does.
map_err(r, prefix) == IF r.ok THEN r ELSE StoreErr(<<prefix>> \o r.err)

\* std::fs::read_to_string: the content of the file, or the io error.
read_to_string(file) ==
    IF file = None THEN StoreErr(<<"No such file or directory (os error 2)">>)
    ELSE StoreOk(file[1])

\* read_config(), given whether the home directory is found and the file.
read_config(home, file) ==
    IF ~home THEN HomeErr
    ELSE LET content == map_err(read_to_string(file), "Failed to read config: ")
         IN  IF ~content.ok THEN content
             ELSE map_err(Config_from_str(content.value[1]), "Failed to parse config: ")

\* Mutant: a missing policy file is read as the default policy.
read_policy_DefaultIfMissing(home, file) ==
    IF ~home THEN HomeErr
    ELSE IF file = None
    THEN StoreOk([version |-> "", privacy |-> PrivacyDefault,
                  complexity |-> ComplexityDefault, injection |-> InjectionDefault,
                  routing |-> Null])
    ELSE map_err(RoutingPolicy_from_str(file[1]), "Failed to parse policy: ")

\* read_policy()
read_policy(home, file) ==
    IF ~home THEN HomeErr
    ELSE LET content == map_err(read_to_string(file), "Failed to read policy: ")
         IN  IF ~content.ok THEN content
             ELSE map_err(RoutingPolicy_from_str(content.value[1]),
                          "Failed to parse policy: ")

\* std::fs::write: Ok(()) or the io error.
fs_write(fails) ==
    IF fails THEN StoreErr(<<"Permission denied (os error 13)">>) ELSE StoreOk("unit")

\* write_config(config): the Result, and the content the file is left with.
write_config(home, config, fails, file) ==
    IF ~home THEN [res |-> HomeErr, file |-> file]
    ELSE LET content == Config_to_string(config)
             written == map_err(fs_write(fails), "Failed to write config: ")
         IN  IF ~written.ok THEN [res |-> written, file |-> file]
             ELSE [res |-> StoreOk("Config saved successfully"), file |-> Some(content)]

\* write_policy(policy)
write_policy(home, policy, fails, file) ==
    IF ~home THEN [res |-> HomeErr, file |-> file]
    ELSE LET content == RoutingPolicy_to_string(policy)
             written == map_err(fs_write(fails), "Failed to write policy: ")
         IN  IF ~written.ok THEN [res |-> written, file |-> file]
             ELSE [res |-> StoreOk("Policy saved successfully"), file |-> Some(content)]

\* ---- the files the commands meet (inputs) ----
HttpBase == <<"h", "t", "t", "p", ":", "/", "/", "x">>

\* An entry with the two fields of ModelConfig and the two of LiteLLMParams.
PlainEntry ==
    [model_name |-> "llama-fast",
     litellm_params |-> [model |-> "ollama/test", api_base |-> HttpBase]]

\* An entry whose litellm_params carry one more key.
KeyedEntry ==
    [model_name |-> "qwen-local",
     litellm_params |-> [model |-> "ollama/test", api_base |-> HttpBase,
                         api_key |-> "sk-1234"]]

\* An entry that carries one more key itself.
InfoEntry ==
    [model_name |-> "qwen-local",
     litellm_params |-> [model |-> "ollama/test", api_base |-> HttpBase],
     model_info |-> Mapping([mode |-> "chat"])]

\* An entry without api_base.
BrokenEntry == [model_name |-> "llama-fast", litellm_params |-> [model |-> "ollama/test"]]

ModelLists == {<<>>, <<PlainEntry>>, <<KeyedEntry>>, <<InfoEntry, PlainEntry>>, <<BrokenEntry>>}

\* A config.yaml with every key the inputs use.
ConfigFull(model_list) ==
    [model_list |-> model_list,
     litellm_settings |-> Mapping([drop_params |-> TRUE]),
     router_settings |-> Mapping([num_retries |-> 2]),
     general_settings |-> Mapping([master_key |-> "sk-master"]),
     environment_variables |-> Mapping([OLLAMA_HOST |-> "localhost"])]

\* The keys a config.yaml may have.
ConfigKeySets ==
    { {"model_list", "litellm_settings", "router_settings", "general_settings",
       "environment_variables"},
      {"model_list", "litellm_settings", "router_settings", "general_settings"},
      {"model_list", "litellm_settings"},
      {"model_list", "environment_variables"},
      {"model_list"},
      {"litellm_settings", "router_settings", "general_settings"} }

ConfigDocs == {[k \in K |-> ConfigFull(l)[k]] : K \in ConfigKeySets, l \in ModelLists}
ConfigFiles == {None, Some(Malformed)} \cup {Some(Document(d)) : d \in ConfigDocs}

\* The privacy section of a policy.yaml: all fields, one field, no field.
PrivacySections ==
    { [enabled |-> TRUE, pii_regexes |-> <<"ssn">>, entropy_threshold |-> 4,
       min_token_length |-> 20, sensitive_model |-> "llama-private"],
      [enabled |-> TRUE],
      [k \in {} |-> FALSE] }

\* A policy.yaml with every key the inputs use.
PolicyFull(privacy) ==
    [version |-> "1.0",
     privacy |-> privacy,
     complexity |-> [enabled |-> TRUE, simple_max_tokens |-> 100],
     injection |-> [patterns |-> <<"ignore previous">>, block_on_injection |-> TRUE],
     routing |-> Mapping([default_model |-> "llama-fast"]),
     schema |-> "v2"]

\* The keys a policy.yaml may have.
PolicyKeySets ==
    { {}, {"version", "privacy", "complexity", "injection", "routing"},
      {"version"}, {"privacy"}, {"complexity", "injection"}, {"routing", "schema"} }

PolicyDocs == {[k \in K |-> PolicyFull(p)[k]] : K \in PolicyKeySets, p \in PrivacySections}
PolicyFiles == {None, Some(Malformed)} \cup {Some(Document(d)) : d \in PolicyDocs}

\* What a call meets: nothing, no home directory, or a write that fails.
ReadFaults == {"none", "home"}
WriteFaults == {"none", "home", "write"}

\* The configs the caller may save: the one it loaded, or a new empty one.
ConfigArgs ==
    (IF held.config # None THEN {held.config[1].value} ELSE {}) \cup {Config(<<>>)}

\* The policies the caller may save: the one it loaded.
PolicyArgs == IF held.policy # None THEN {held.policy[1].value} ELSE {}

StoreInit ==
    /\ disk \in [config : ConfigFiles, policy : PolicyFiles]
    /\ held = [config |-> None, policy |-> None]
    /\ sres = None

\* read_config
ReadConfig ==
    \E fault \in ReadFaults :
        LET r == read_config(fault # "home", disk.config)
        IN  /\ sres' = Some([op |-> "read_config", fault |-> fault, file |-> disk.config,
                             arg |-> None, res |-> r])
            /\ held' = IF r.ok
                       THEN [held EXCEPT !.config =
                                Some([file |-> disk.config, value |-> r.value[1]])]
                       ELSE held
            /\ UNCHANGED <<disk, healthVars, probeVars, tailVars, validVars>>

\* write_config
WriteConfig ==
    \E fault \in WriteFaults, config \in ConfigArgs :
        LET w == write_config(fault # "home", config, fault = "write", disk.config)
        IN  /\ disk' = [disk EXCEPT !.config = w.file]
            /\ sres' = Some([op |-> "write_config", fault |-> fault, file |-> disk.config,
                             arg |-> Some(config), res |-> w.res])
            /\ UNCHANGED <<held, healthVars, probeVars, tailVars, validVars>>

\* read_policy
ReadPolicy ==
    \E fault \in ReadFaults :
        LET r == read_policy(fault # "home", disk.policy)
        IN  /\ sres' = Some([op |-> "read_policy", fault |-> fault, file |-> disk.policy,
                             arg |-> None, res |-> r])
            /\ held' = IF r.ok
                       THEN [held EXCEPT !.policy =
                                Some([file |-> disk.policy, value |-> r.value[1]])]
                       ELSE held
            /\ UNCHANGED <<disk, healthVars, probeVars, tailVars, validVars>>

\* write_policy
WritePolicy ==
    \E fault \in WriteFaults, policy \in PolicyArgs :
        LET w == write_policy(fault # "home", policy, fault = "write", disk.policy)
        IN  /\ disk' = [disk EXCEPT !.policy = w.file]
            /\ sres' = Some([op |-> "write_policy", fault |-> fault, file |-> disk.policy,
                             arg |-> Some(policy), res |-> w.res])
            /\ UNCHANGED <<held, healthVars, probeVars, tailVars, validVars>>

InitStore == StoreInit /\ HealthIdle /\ ProbeIdle /\ TailIdle /\ ValidIdle

NextStore ==
    \/ ReadConfig
    \/ WriteConfig
    \/ ReadPolicy
    \/ WritePolicy

SpecStore == InitStore /\ [][NextStore]_vars

(***************************************************************************)
(* Claims about the config and policy files.                               *)
(***************************************************************************)
\* Mapping saved has every key of mapping orig, with the same value; the
\* keys in nested are compared by the caller.
KeepsKeys(orig, saved, nested) ==
    \A k \in DOMAIN orig \ nested : k \in DOMAIN saved /\ saved[k] = orig[k]

\* The saved entry has everything the original entry had.
KeepsEntry(orig, saved) ==
    /\ KeepsKeys(orig, saved, {"litellm_params"})
    /\ "litellm_params" \in DOMAIN saved
    /\ KeepsKeys(orig["litellm_params"], saved["litellm_params"], {})

\* The saved document has everything the original document had.
KeepsDocument(orig, saved) ==
    /\ KeepsKeys(orig, saved, {"model_list"})
    /\ "model_list" \in DOMAIN saved
    /\ Len(saved["model_list"]) = Len(orig["model_list"])
    /\ \A i \in 1..Len(orig["model_list"]) :
          KeepsEntry(orig["model_list"][i], saved["model_list"][i])

\* The last call saved the config just as it had been loaded.
SavedAsLoaded ==
    /\ sres # None
    /\ sres[1].op = "write_config"
    /\ sres[1].res.ok
    /\ held.config # None
    /\ sres[1].arg = Some(held.config[1].value)

\* C13: a config that is loaded and then saved keeps every field it had:
\* the document in config.yaml after the save has every key of the document
\* that was loaded, at the top level, in each entry of model_list and in
\* each entry's litellm_params, with the value it had.
C13_RoundTripKeepsFields ==
    SavedAsLoaded => KeepsDocument(held.config[1].file[1][2], disk.config[1][2])

\* The zero value of a field of the three sub-policies.
ZeroOf(f) ==
    CASE f \in {"enabled", "block_on_injection"} -> FALSE
      [] f \in {"pii_regexes", "patterns", "code_signals", "reasoning_signals"} -> <<>>
      [] f \in {"entropy_threshold", "min_token_length", "simple_max_tokens",
                "medium_max_tokens"} -> 0
      [] f = "sensitive_model" -> ""

\* The loaded Config holds what the document holds; a field the document
\* lacks is one of optional and is null.
ConfigAsStored(doc, value, optional) ==
    /\ "model_list" \in DOMAIN doc
    /\ Len(value.model_list) = Len(doc["model_list"])
    /\ \A i \in 1..Len(value.model_list) :
          LET e == doc["model_list"][i]
              m == value.model_list[i]
          IN  /\ m.model_name = e["model_name"]
              /\ m.litellm_params.model = e["litellm_params"]["model"]
              /\ m.litellm_params.api_base = e["litellm_params"]["api_base"]
    /\ \A k \in {"litellm_settings", "router_settings", "general_settings"} :
          IF k \in DOMAIN doc THEN value[k] = doc[k]
          ELSE k \in optional /\ value[k] = <<"Null">>

\* The loaded RoutingPolicy holds what the document holds; version, routing,
\* a sub-policy or a field of a sub-policy that the document lacks has its
\* zero value.
PolicyAsStored(doc, value) ==
    /\ value.version = (IF "version" \in DOMAIN doc THEN doc["version"] ELSE "")
    /\ value.routing = (IF "routing" \in DOMAIN doc THEN doc["routing"] ELSE <<"Null">>)
    /\ \A sub \in {"privacy", "complexity", "injection"} :
          \A f \in DOMAIN value[sub] :
              IF sub \in DOMAIN doc /\ f \in DOMAIN doc[sub]
              THEN value[sub][f] = doc[sub][f]
              ELSE value[sub][f] = ZeroOf(f)

\* The message each failure of each command begins with.
FailurePrefix(op, failure) ==
    CASE failure = "home" -> "Could not find home directory"
      [] op = "read_config" /\ failure = "read" -> "Failed to read config: "
      [] op = "read_config" /\ failure = "parse" -> "Failed to parse config: "
      [] op = "write_config" /\ failure = "write" -> "Failed to write config: "
      [] op = "read_policy" /\ failure = "read" -> "Failed to read policy: "
      [] op = "read_policy" /\ failure = "parse" -> "Failed to parse policy: "
      [] op = "write_policy" /\ failure = "write" -> "Failed to write policy: "

\* The failures a command can meet.
FailuresOf(op) ==
    IF op \in {"read_config", "read_policy"} THEN {"home", "read", "parse"}
    ELSE {"home", "write"}

\* No two failures of a command, and no two failures of the same kind on
\* the config and on the policy, begin alike, the home directory apart.
PrefixesDiffer ==
    \A op1, op2 \in {"read_config", "write_config", "read_policy", "write_policy"} :
        \A f1 \in FailuresOf(op1), f2 \in FailuresOf(op2) :
            (FailurePrefix(op1, f1) = FailurePrefix(op2, f2)) =>
                \/ (op1 = op2 /\ f1 = f2)
                \/ (f1 = "home" /\ f2 = "home")

\* The last call failed with the given failure and reported it as such.
Reports(failure) ==
    /\ ~sres[1].res.ok
    /\ sres[1].res.value = None
    /\ sres[1].res.err[1] = FailurePrefix(sres[1].op, failure)

\* What every load and save does, with optional the sections of the config
\* that may be missing from the file.
LoadsAndSaves(optional) ==
    sres # None =>
        LET c == sres[1]
            isConfig == c.op \in {"read_config", "write_config"}
            file == c.file
            after == IF isConfig THEN disk.config ELSE disk.policy
        IN  /\ PrefixesDiffer
            /\ c.fault = "home" => Reports("home") /\ after = file
            /\ (c.op \in {"read_config", "read_policy"} /\ c.fault = "none") =>
                  /\ after = file
                  /\ file = None => Reports("read")
                  /\ (file # None /\ file[1][1] = "Malformed") => Reports("parse")
                  /\ (file # None /\ file[1][1] = "Document" /\ ~c.res.ok) => Reports("parse")
                  /\ c.res.ok =>
                        /\ file # None /\ file[1][1] = "Document"
                        /\ IF isConfig
                           THEN ConfigAsStored(file[1][2], c.res.value[1], optional)
                           ELSE PolicyAsStored(file[1][2], c.res.value[1])
            /\ (c.op \in {"write_config", "write_policy"} /\ c.fault = "write") =>
                  Reports("write") /\ after = file
            /\ (c.op \in {"write_config", "write_policy"} /\ c.fault = "none") =>
                  /\ c.res.ok
                  /\ after # None /\ after[1][1] = "Document"

\* C14 as stated: every failure of a load or save is reported as its own
\* error (missing file: read error, malformed file: parse error, failed
\* write: write error), and a successful load returns the stored values with
\* nothing defaulted but the optional parts of the routing policy; no
\* section of the config is optional.
C14_NothingDefaultedButPolicy == LoadsAndSaves({})

\* C14 as amended: as above, the optional parts being those of the routing
\* policy (version, privacy, complexity, injection, routing and the fields
\* of the three sub-policies) and the three settings sections of the config
\* (litellm_settings, router_settings, general_settings), which are null
\* when the file lacks them.
C14_FailuresReportedLoadsAsStored ==
    LoadsAndSaves({"litellm_settings", "router_settings", "general_settings"})

\* Witness of C14: a config.yaml without litellm_settings was loaded, and
\* the loaded config has a null there.
C14_Witness ==
    /\ sres # None
    /\ sres[1].op = "read_config"
    /\ sres[1].res.ok
    /\ "litellm_settings" \notin DOMAIN sres[1].file[1][2]
    /\ "environment_variables" \in DOMAIN sres[1].file[1][2]
    /\ sres[1].res.value[1].litellm_settings = <<"Null">>
    /\ Len(sres[1].res.value[1].model_list) = 1

====
